---- MODULE Spec2Model ----
(***************************************************************************)
(* Model of backend/main.py: a FastAPI service that seeds a Chroma         *)
(* collection at import time and serves /health and /api/generate, the     *)
(* latter querying the collection, composing a prompt and calling Ollama.  *)
(*                                                                         *)
(* Python strings are modelled as sequences of non-empty text tokens, so   *)
(* that the empty string is <<>> and concatenation is \o.                  *)
(***************************************************************************)
EXTENDS Integers, Sequences, FiniteSets, TLC

\* ---------------------------------------------------------------- bounds
\* Consecutive calls of seed_chroma_if_empty explored by SpecSeed.
MaxSeedCalls == 3

\* Request slots served concurrently by the framework's thread pool.
Reqs == {"r1", "r2"}

\* Inputs of the requests.
Prompts == {"address form"}
CodeTypes == {[tag |-> "None"], [tag |-> "str", value |-> ""], [tag |-> "str", value |-> "python"]}
NResultsValues == {0, 1, 3}

\* ------------------------------------------------------- string helpers
\* A Python str literal as a token sequence.
Str(s) == IF s = "" THEN <<>> ELSE <<s>>

RECURSIVE Join(_, _)
\* sep.join(parts) for a list of strs
Join(sep, parts) ==
    IF parts = <<>> THEN <<>>
    ELSE IF Len(parts) = 1 THEN Str(parts[1])
    ELSE Str(parts[1]) \o Str(sep) \o Join(sep, Tail(parts))

\* All sequences without repetition over S of length at most n.
RECURSIVE Arrangements(_, _)
Arrangements(S, n) ==
    IF n <= 0 \/ S = {} THEN {<<>>}
    ELSE {<<>>} \cup UNION {{<<x>> \o t : t \in Arrangements(S \ {x}, n - 1)} : x \in S}

Min(a, b) == IF a < b THEN a ELSE b

\* ------------------------------------------------------------ seed data
SeedTexts == <<"Basic Tailwind HTML page: ...", "JavaScript fetch example: ...", "Python FastAPI example: ...">>

SeedMetadatas == <<[lang |-> "html", description |-> "Basic Tailwind HTML page template"],
                   [lang |-> "javascript", description |-> "JS fetch example for POST API"],
                   [lang |-> "python", description |-> "Simple FastAPI example"]>>

SeedIds == <<"doc-html-tailwind", "doc-js-fetch", "doc-python-fastapi">>

\* Documents an earlier user of the persistent collection may have left behind.
ForeignDocs ==
    {[id |-> "doc-a", text |-> "snippet a", metadata |-> [lang |-> "go", description |-> "a"]],
     [id |-> "doc-b", text |-> "snippet b", metadata |-> [lang |-> "rust", description |-> "b"]],
     [id |-> "doc-c", text |-> "snippet c", metadata |-> [lang |-> "c", description |-> "c"]],
     [id |-> "doc-d", text |-> "snippet d", metadata |-> [lang |-> "sql", description |-> "d"]]}

\* collection.add(documents, metadatas, ids): the records are appended.
CollectionAdd(coll, documents, metadatas, ids) ==
    coll \o [i \in 1..Len(ids) |-> [id |-> ids[i], text |-> documents[i], metadata |-> metadatas[i]]]

\* collection.count()
CollectionCount(coll) == Len(coll)

\* seed_chroma_if_empty(): the collection after the call.
SeedNoGuard(coll) == CollectionAdd(coll, SeedTexts, SeedMetadatas, SeedIds)

seed_chroma_if_empty(coll) ==
    IF CollectionCount(coll) > 0 THEN coll
    ELSE CollectionAdd(coll, SeedTexts, SeedMetadatas, SeedIds)

\* ------------------------------------------------- the Chroma query call
\* collection.query(query_texts=[prompt], n_results=k) is opaque: it either
\* raises (store unavailable; Chroma rejects n_results <= 0) or returns a
\* ranking of at most k distinct documents of the collection.
QueryRankings(coll, k) ==
    IF k <= 0 THEN {}
    ELSE Arrangements({coll[i].text : i \in 1..Len(coll)}, Min(k, CollectionCount(coll)))

\* The shapes of the result mapping for a ranking: {"documents": [ranking]};
\* a store with nothing to return may also omit the key, or give None or [].
ResultShapes(ranking) ==
    {[tag |-> "dict", documents |-> [tag |-> "list", value |-> <<ranking>>]]}
    \cup (IF ranking = <<>>
          THEN {[tag |-> "dict", documents |-> [tag |-> "missing"]],
                [tag |-> "dict", documents |-> [tag |-> "None"]],
                [tag |-> "dict", documents |-> [tag |-> "list", value |-> <<>>]]}
          ELSE {})

\* results.get("documents") is truthy
DocumentsTruthy(results) ==
    /\ results.documents.tag = "list"
    /\ results.documents.value # <<>>

\* contexts = results.get("documents", [[]])[0] if results.get("documents") else []
ContextsOfReversed(results) ==
    IF DocumentsTruthy(results)
    THEN [i \in 1..Len(results.documents.value[1]) |->
            results.documents.value[1][Len(results.documents.value[1]) + 1 - i]]
    ELSE <<>>

ContextsOfBlank(results) ==
    IF DocumentsTruthy(results) /\ results.documents.value[1] # <<>>
    THEN results.documents.value[1] ELSE <<"">>

ContextsOfDoubled(results) ==
    IF DocumentsTruthy(results) THEN results.documents.value[1] \o results.documents.value[1] ELSE <<>>

ContextsOf(results) ==
    IF DocumentsTruthy(results) THEN results.documents.value[1] ELSE <<>>

ContextSeparator == "\n\n---\n\n"

\* contexts_text = "\n\n---\n\n".join(contexts)
ContextsText(contexts) == Join(ContextSeparator, contexts)

\* --------------------------------------------------------- prompt build
SystemMessage == <<"You are an expert code generator. ",
                   "You receive a user request and some example code snippets as context. ",
                   "Use the context as inspiration, but generate fresh, clean code.">>

\* req.code_type or "unspecified"
CodeTypeIfNone(code_type) ==
    IF code_type.tag = "None" THEN "unspecified" ELSE code_type.value

CodeTypeOrUnspecified(code_type) ==
    IF code_type.tag = "None" \/ code_type.value = "" THEN "unspecified" ELSE code_type.value

UserRequestLabel == "User request:\n"
CodeTypeLabel == "\n\nCode type: "
SnippetsLabel == "\n\nRelevant snippets from the knowledge base:\n"
PromptTrailer == "\n\nNow generate the best possible code for the user. \nRespond with ONLY code and minimal comments.\n"

\* the f-string user_prompt
UserPrompt(request, contexts_text) ==
    <<UserRequestLabel>> \o Str(request.prompt)
    \o <<CodeTypeLabel>> \o Str(CodeTypeOrUnspecified(request.code_type))
    \o <<SnippetsLabel>> \o contexts_text
    \o <<PromptTrailer>>

\* "messages" of the JSON body posted to /api/chat
Messages(system_message, user_prompt) ==
    <<[role |-> "system", content |-> system_message],
      [role |-> "user", content |-> user_prompt]>>

\* timeout=120 of requests.post
OllamaTimeout == 120

\* ------------------------------------------------------ the Ollama call
JMissing == [tag |-> "missing"]
JNull == [tag |-> "null"]
JString(s) == [tag |-> "string", value |-> s]
JObject(content) == [tag |-> "object", content |-> content]

\* What requests.post(...) can do: raise, or return a status and a body.
\* A body is not JSON, a JSON value that is no object, or an object whose
\* "message" is missing, null or an object whose "content" is missing, null
\* or a string.
OllamaReplies ==
    {[kind |-> "raise", detail |-> "Connection refused"],
     [kind |-> "raise", detail |-> "Read timed out. (read timeout=120)"],
     [kind |-> "http", status |-> 500, body |-> [tag |-> "notjson"]],
     [kind |-> "http", status |-> 200, body |-> [tag |-> "notjson"]],
     [kind |-> "http", status |-> 200, body |-> [tag |-> "array"]],
     [kind |-> "http", status |-> 200, body |-> [tag |-> "object", message |-> JMissing]],
     [kind |-> "http", status |-> 200, body |-> [tag |-> "object", message |-> JNull]],
     [kind |-> "http", status |-> 200, body |-> [tag |-> "object", message |-> JObject(JMissing)]],
     [kind |-> "http", status |-> 200, body |-> [tag |-> "object", message |-> JObject(JNull)]],
     [kind |-> "http", status |-> 200, body |-> [tag |-> "object", message |-> JObject(JString("generated code"))]]}

\* Values of the local `content`: a str (token sequence) or None.
PyStr(tokens) == [tag |-> "str", value |-> tokens]
PyNone == [tag |-> "None"]

ErrorPrefix == "Error calling Ollama: "

\* f"Error calling Ollama: {e}"
ErrorContent(detail) == PyStr(<<ErrorPrefix>> \o Str(detail))

\* The try/except around the call: the value bound to `content`.
\* resp.raise_for_status(); data = resp.json();
\* content = data.get("message", {}).get("content", "")
ContentOf(reply) ==
    IF reply.kind = "raise" THEN ErrorContent(reply.detail)
    ELSE IF reply.status < 200 \/ reply.status >= 400 THEN ErrorContent("500 Server Error: Internal Server Error for url: /api/chat")
    ELSE IF reply.body.tag = "notjson" THEN ErrorContent("Expecting value: line 1 column 1 (char 0)")
    ELSE IF reply.body.tag = "array" THEN ErrorContent("'list' object has no attribute 'get'")
    ELSE IF reply.body.message.tag = "missing" THEN PyStr(<<>>)
    ELSE IF reply.body.message.tag = "null" THEN ErrorContent("'NoneType' object has no attribute 'get'")
    ELSE IF reply.body.message.content.tag = "missing" THEN PyStr(<<>>)
    ELSE IF reply.body.message.content.tag = "null" THEN PyNone
    ELSE PyStr(Str(reply.body.message.content.value))

\* GenerateResponse(output=content, used_context=contexts): pydantic rejects
\* an output that is not a str.
ResponseValid(content) == content.tag = "str"

GenerateResponse(content, contexts) == [output |-> content.value, used_context |-> contexts]

\* ---------------------------------------------------------------- state
VARIABLES
    proc,            \* "importing" while the module body runs, then "serving"
    store,           \* the persistent Chroma collection: a sequence of documents
    store0,          \* history: the collection before the first start
    seed_calls,      \* history: calls of seed_chroma_if_empty so far
    pc,              \* per request: idle, query, assemble, call, done, failed
    req,             \* per request: the GenerateRequest
    query_outcome,   \* history: "none", "returned" or "raised"
    returned,        \* history: the ranking the store gave for the request
    results,         \* local results
    contexts,        \* local contexts
    contexts_text,   \* local contexts_text
    system_message,  \* local system_message
    user_prompt,     \* local user_prompt
    posts,           \* history: the bodies posted to /api/chat, in order
    reply,           \* history: what the post did
    content,         \* local content
    status,          \* HTTP status sent to the client, 0 while none
    response,        \* the GenerateResponse sent
    steps            \* history: the handler's steps, in order

lifecycle == <<proc, store, store0, seed_calls>>
locals == <<results, contexts, contexts_text, system_message, user_prompt, content>>
history == <<query_outcome, returned, posts, reply, steps>>
outcome == <<status, response>>
vars == <<proc, store, store0, seed_calls, pc, req, query_outcome, returned, results, contexts,
          contexts_text, system_message, user_prompt, posts, reply, content, status, response, steps>>

NoRequest == [tag |-> "none"]
Unset == [tag |-> "unset"]
NoResponse == [tag |-> "none"]
NoReply == [kind |-> "none"]

\* class GenerateRequest(BaseModel)
GenerateRequest(prompt, code_type, n_results) ==
    [prompt |-> prompt, code_type |-> code_type, n_results |-> n_results]

\* No request is in progress in a fresh process.
FreshRequests ==
    /\ pc = [r \in Reqs |-> "idle"]
    /\ req = [r \in Reqs |-> NoRequest]
    /\ query_outcome = [r \in Reqs |-> "none"]
    /\ returned = [r \in Reqs |-> <<>>]
    /\ results = [r \in Reqs |-> Unset]
    /\ contexts = [r \in Reqs |-> <<>>]
    /\ contexts_text = [r \in Reqs |-> <<>>]
    /\ system_message = [r \in Reqs |-> <<>>]
    /\ user_prompt = [r \in Reqs |-> <<>>]
    /\ posts = [r \in Reqs |-> <<>>]
    /\ reply = [r \in Reqs |-> NoReply]
    /\ content = [r \in Reqs |-> Unset]
    /\ status = [r \in Reqs |-> 0]
    /\ response = [r \in Reqs |-> NoResponse]
    /\ steps = [r \in Reqs |-> <<>>]

\* The collection when the process first starts: empty, or left by others.
InitialStores == {<<>>} \cup {<<d>> : d \in {x \in ForeignDocs : x.id = "doc-a"}}

SeedStores == Arrangements(ForeignDocs, 3)

Init ==
    /\ proc = "importing"
    /\ store \in InitialStores
    /\ store0 = store
    /\ seed_calls = 0
    /\ FreshRequests

InitSeed ==
    /\ proc = "importing"
    /\ store \in SeedStores
    /\ store0 = store
    /\ seed_calls = 0
    /\ FreshRequests

\* Module import: the collection is opened and seed_chroma_if_empty() runs
\* before the app object exists.
Startup ==
    /\ proc = "importing"
    /\ store' = seed_chroma_if_empty(store)
    /\ seed_calls' = seed_calls + 1
    /\ proc' = "serving"
    /\ UNCHANGED <<store0, pc, req, locals, history, outcome>>

\* The process ends and is started again on the same persistent collection.
Restart ==
    /\ proc = "serving"
    /\ seed_calls < MaxSeedCalls
    /\ proc' = "importing"
    /\ pc' = [r \in Reqs |-> "idle"]
    /\ req' = [r \in Reqs |-> NoRequest]
    /\ query_outcome' = [r \in Reqs |-> "none"]
    /\ returned' = [r \in Reqs |-> <<>>]
    /\ results' = [r \in Reqs |-> Unset]
    /\ contexts' = [r \in Reqs |-> <<>>]
    /\ contexts_text' = [r \in Reqs |-> <<>>]
    /\ system_message' = [r \in Reqs |-> <<>>]
    /\ user_prompt' = [r \in Reqs |-> <<>>]
    /\ posts' = [r \in Reqs |-> <<>>]
    /\ reply' = [r \in Reqs |-> NoReply]
    /\ content' = [r \in Reqs |-> Unset]
    /\ status' = [r \in Reqs |-> 0]
    /\ response' = [r \in Reqs |-> NoResponse]
    /\ steps' = [r \in Reqs |-> <<>>]
    /\ UNCHANGED <<store, store0, seed_calls>>

\* GET /health
Health ==
    /\ proc = "serving"
    /\ UNCHANGED vars

\* Receive, but the handler also files the prompt in the collection.
ReceiveAndStore(r) ==
    /\ proc = "serving"
    /\ pc[r] = "idle"
    /\ \E p \in Prompts, ct \in CodeTypes, n \in NResultsValues :
           /\ req' = [req EXCEPT ![r] = GenerateRequest(p, ct, n)]
           /\ store' = CollectionAdd(store, <<p>>, <<[lang |-> "prompt", description |-> p]>>, <<r>>)
    /\ pc' = [pc EXCEPT ![r] = "query"]
    /\ UNCHANGED <<proc, store0, seed_calls, locals, history, outcome>>

\* POST /api/generate with a valid body reaches generate_code.
Receive(r) ==
    /\ proc = "serving"
    /\ pc[r] = "idle"
    /\ \E p \in Prompts, ct \in CodeTypes, n \in NResultsValues :
           req' = [req EXCEPT ![r] = GenerateRequest(p, ct, n)]
    /\ pc' = [pc EXCEPT ![r] = "query"]
    /\ UNCHANGED <<lifecycle, locals, history, outcome>>

\* QueryStoreRaises, but with the query inside the try block.
QueryStoreRaisesCaught(r) ==
    /\ pc[r] = "query"
    /\ query_outcome' = [query_outcome EXCEPT ![r] = "raised"]
    /\ steps' = [steps EXCEPT ![r] = @ \o <<"query", "respond">>]
    /\ content' = [content EXCEPT ![r] = ErrorContent("Collection unavailable")]
    /\ response' = [response EXCEPT ![r] = GenerateResponse(ErrorContent("Collection unavailable"), <<>>)]
    /\ status' = [status EXCEPT ![r] = 200]
    /\ pc' = [pc EXCEPT ![r] = "done"]
    /\ UNCHANGED <<lifecycle, req, results, contexts, contexts_text, system_message, user_prompt,
                   returned, posts, reply>>

\* collection.query(...) raises: nothing catches it, the framework answers 500.
QueryStoreRaises(r) ==
    /\ pc[r] = "query"
    /\ query_outcome' = [query_outcome EXCEPT ![r] = "raised"]
    /\ steps' = [steps EXCEPT ![r] = Append(@, "query")]
    /\ status' = [status EXCEPT ![r] = 500]
    /\ pc' = [pc EXCEPT ![r] = "failed"]
    /\ UNCHANGED <<lifecycle, req, locals, returned, posts, reply, response>>

\* collection.query(...) returns; contexts is taken from the result.
QueryStoreReturns(r) ==
    /\ pc[r] = "query"
    /\ \E ranking \in QueryRankings(store, req[r].n_results) :
         \E res \in ResultShapes(ranking) :
           /\ returned' = [returned EXCEPT ![r] = ranking]
           /\ results' = [results EXCEPT ![r] = res]
           /\ contexts' = [contexts EXCEPT ![r] = ContextsOf(res)]
    /\ query_outcome' = [query_outcome EXCEPT ![r] = "returned"]
    /\ steps' = [steps EXCEPT ![r] = Append(@, "query")]
    /\ pc' = [pc EXCEPT ![r] = "assemble"]
    /\ UNCHANGED <<lifecycle, req, contexts_text, system_message, user_prompt, content,
                   posts, reply, outcome>>

\* AssemblePrompt, but with user_prompt kept in one module-level global.
AssemblePromptGlobal(r) ==
    /\ pc[r] = "assemble"
    /\ contexts_text' = [contexts_text EXCEPT ![r] = ContextsText(contexts[r])]
    /\ system_message' = [system_message EXCEPT ![r] = SystemMessage]
    /\ user_prompt' = [q \in Reqs |-> UserPrompt(req[r], ContextsText(contexts[r]))]
    /\ steps' = [steps EXCEPT ![r] = Append(@, "assemble")]
    /\ pc' = [pc EXCEPT ![r] = "call"]
    /\ UNCHANGED <<lifecycle, req, results, contexts, content, query_outcome, returned,
                   posts, reply, outcome>>

\* contexts_text, system_message and user_prompt are built.
AssemblePrompt(r) ==
    /\ pc[r] = "assemble"
    /\ contexts_text' = [contexts_text EXCEPT ![r] = ContextsText(contexts[r])]
    /\ system_message' = [system_message EXCEPT ![r] = SystemMessage]
    /\ user_prompt' = [user_prompt EXCEPT ![r] = UserPrompt(req[r], ContextsText(contexts[r]))]
    /\ steps' = [steps EXCEPT ![r] = Append(@, "assemble")]
    /\ pc' = [pc EXCEPT ![r] = "call"]
    /\ UNCHANGED <<lifecycle, req, results, contexts, content, query_outcome, returned,
                   posts, reply, outcome>>

\* The body of the POST to {OLLAMA_URL}/api/chat
PostBody(r) ==
    [messages |-> Messages(system_message[r], user_prompt[r]), stream |-> FALSE, timeout |-> OllamaTimeout]

\* CallOllama, but a call that did not give a str is made a second time.
CallOllamaRetry(r) ==
    /\ pc[r] = "call"
    /\ \E rep \in OllamaReplies :
         /\ reply' = [reply EXCEPT ![r] = rep]
         /\ content' = [content EXCEPT ![r] = ContentOf(rep)]
         /\ posts' = [posts EXCEPT ![r] = IF rep.kind = "raise" THEN @ \o <<PostBody(r), PostBody(r)>>
                                          ELSE Append(@, PostBody(r))]
         /\ IF ResponseValid(ContentOf(rep))
            THEN /\ response' = [response EXCEPT ![r] = GenerateResponse(ContentOf(rep), contexts[r])]
                 /\ status' = [status EXCEPT ![r] = 200]
                 /\ steps' = [steps EXCEPT ![r] = @ \o <<"call", "respond">>]
                 /\ pc' = [pc EXCEPT ![r] = "done"]
            ELSE /\ response' = response
                 /\ status' = [status EXCEPT ![r] = 500]
                 /\ steps' = [steps EXCEPT ![r] = Append(@, "call")]
                 /\ pc' = [pc EXCEPT ![r] = "failed"]
    /\ UNCHANGED <<lifecycle, req, results, contexts, contexts_text, system_message, user_prompt,
                   query_outcome, returned>>

\* The try block, the except clause and the return statement.
CallOllama(r) ==
    /\ pc[r] = "call"
    /\ posts' = [posts EXCEPT ![r] = Append(@, PostBody(r))]
    /\ \E rep \in OllamaReplies :
         /\ reply' = [reply EXCEPT ![r] = rep]
         /\ content' = [content EXCEPT ![r] = ContentOf(rep)]
         /\ IF ResponseValid(ContentOf(rep))
            THEN /\ response' = [response EXCEPT ![r] = GenerateResponse(ContentOf(rep), contexts[r])]
                 /\ status' = [status EXCEPT ![r] = 200]
                 /\ steps' = [steps EXCEPT ![r] = @ \o <<"call", "respond">>]
                 /\ pc' = [pc EXCEPT ![r] = "done"]
            ELSE /\ response' = response
                 /\ status' = [status EXCEPT ![r] = 500]
                 /\ steps' = [steps EXCEPT ![r] = Append(@, "call")]
                 /\ pc' = [pc EXCEPT ![r] = "failed"]
    /\ UNCHANGED <<lifecycle, req, results, contexts, contexts_text, system_message, user_prompt,
                   query_outcome, returned>>

Next ==
    \/ Startup
    \/ Health
    \/ \E r \in Reqs : Receive(r)
    \/ \E r \in Reqs : QueryStoreRaises(r)
    \/ \E r \in Reqs : QueryStoreReturns(r)
    \/ \E r \in Reqs : AssemblePrompt(r)
    \/ \E r \in Reqs : CallOllama(r)

Spec == Init /\ [][Next]_vars

NextSeed ==
    \/ Startup
    \/ Restart

SpecSeed == InitSeed /\ [][NextSeed]_vars

\* ---------------------------------------------------------------- claims
Finished(r) == pc[r] \in {"done", "failed"}
Responded(r) == response[r] # NoResponse
StartsWith(tokens, prefix) == Len(tokens) >= 1 /\ tokens[1] = prefix

\* The post did not deliver a generated text: it raised, the status is not
\* 2xx, or the body is not a JSON object holding message.content as a string
\* (a key that is merely absent is read with its default and not counted).
ReplyFailed(rep) ==
    \/ rep.kind = "raise"
    \/ /\ rep.kind = "http"
       /\ \/ rep.status # 200
          \/ rep.body.tag # "object"
          \/ rep.body.message.tag = "null"
          \/ rep.body.message.tag = "object" /\ rep.body.message.content.tag = "null"

\* C1: whenever the store query succeeded and the Model Runtime call failed,
\* the handler does not raise: it answers 200 with a GenerateResponse whose
\* output starts with "Error calling Ollama: ".
C1_RuntimeFailureIsErrorOutput ==
    \A r \in Reqs :
        (Finished(r) /\ query_outcome[r] = "returned" /\ ReplyFailed(reply[r]))
            => /\ pc[r] = "done"
               /\ status[r] = 200
               /\ Responded(r)
               /\ StartsWith(response[r].output, ErrorPrefix)

\* C2: in every response, after a successful or a failed Model Runtime call,
\* used_context is exactly the ranking the similarity query returned for the
\* request: same texts, same order.
C2_UsedContextIsQueryResult ==
    \A r \in Reqs : Responded(r) => response[r].used_context = returned[r]

C2_Witness ==
    \E r \in Reqs :
        /\ Responded(r)
        /\ Len(response[r].used_context) = 3
        /\ response[r].used_context # SeedTexts
        /\ ReplyFailed(reply[r])

\* C3: after one or more consecutive calls of seed_chroma_if_empty on a
\* collection that was empty, the collection holds exactly the three fixed
\* documents, once each; on a collection that was not empty it inserts nothing.
C3_SeedingIdempotent ==
    /\ (store0 = <<>> /\ seed_calls >= 1) =>
            /\ Len(store) = 3
            /\ [i \in 1..3 |-> store[i].id] = SeedIds
            /\ [i \in 1..3 |-> store[i].text] = SeedTexts
            /\ [i \in 1..3 |-> store[i].metadata] = SeedMetadatas
    /\ (store0 # <<>> \/ seed_calls = 0) => store = store0

C3_Witness == store0 = <<>> /\ seed_calls = MaxSeedCalls /\ proc = "serving" /\ Len(store) = 3

\* C4: the length of used_context in a response is at most the request's
\* n_results and at most the number of documents in the collection.
C4_UsedContextBounded ==
    \A r \in Reqs :
        Responded(r) =>
            /\ Len(response[r].used_context) <= req[r].n_results
            /\ Len(response[r].used_context) <= CollectionCount(store)

C4_Witness ==
    \E r \in Reqs :
        /\ Responded(r)
        /\ req[r].n_results = 3
        /\ CollectionCount(store) = 1
        /\ Len(response[r].used_context) = 1

\* C5: a failure of the store query is not caught: the request ends with a
\* server error, no GenerateResponse is produced and the Model Runtime is not
\* called; a response exists only for requests whose query returned.
C5_StoreFailurePropagates ==
    \A r \in Reqs :
        /\ query_outcome[r] = "raised" =>
                /\ pc[r] = "failed"
                /\ status[r] = 500
                /\ ~Responded(r)
                /\ reply[r] = NoReply
        /\ Responded(r) => (query_outcome[r] = "returned" /\ reply[r] # NoReply)

C5_Witness ==
    \E r, q \in Reqs :
        /\ query_outcome[r] = "raised" /\ status[r] = 500
        /\ Responded(q) /\ ReplyFailed(reply[q]) /\ StartsWith(response[q].output, ErrorPrefix)

IsPrefixOf(s, t) == Len(s) <= Len(t) /\ s = SubSeq(t, 1, Len(s))

\* C6: the steps of a request are store query, prompt assembly, Model Runtime
\* call, response, in this order; the Model Runtime is posted to at most once,
\* exactly once by the time a request whose query returned has ended and never
\* when the query raised, failed calls included; each post carries exactly the
\* system message and then the user message.
C6_StepOrderAndSingleCall ==
    \A r \in Reqs :
        /\ IsPrefixOf(steps[r], <<"query", "assemble", "call", "respond">>)
        /\ Len(posts[r]) <= 1
        /\ (Finished(r) /\ query_outcome[r] = "returned") => Len(posts[r]) = 1
        /\ query_outcome[r] = "raised" => posts[r] = <<>>
        /\ \A i \in 1..Len(posts[r]) :
              /\ Len(posts[r][i].messages) = 2
              /\ posts[r][i].messages[1].role = "system"
              /\ posts[r][i].messages[2].role = "user"
              /\ posts[r][i].messages[1].content = system_message[r]
              /\ posts[r][i].messages[2].content = user_prompt[r]

C6_Witness ==
    \E r \in Reqs :
        /\ pc[r] = "done"
        /\ reply[r].kind = "raise"
        /\ Len(posts[r]) = 1
        /\ steps[r] = <<"query", "assemble", "call", "respond">>

IndexOf(tokens, t) == CHOOSE i \in 1..Len(tokens) : tokens[i] = t

\* The text of the "Code type:" line of a user prompt after its label.
CodeTypeLine(tokens) ==
    SubSeq(tokens, IndexOf(tokens, CodeTypeLabel) + 1, IndexOf(tokens, SnippetsLabel) - 1)

Assembled(r) == pc[r] \in {"call", "done"} \/ (pc[r] = "failed" /\ query_outcome[r] = "returned")

\* C7 as stated: with code_type omitted the "Code type:" line of the user
\* message reads "unspecified"; with code_type present it reads code_type.
C7_CodeTypeInterpolated ==
    \A r \in Reqs :
        Assembled(r) =>
            CodeTypeLine(user_prompt[r]) =
                IF req[r].code_type.tag = "None" THEN <<"unspecified">>
                ELSE Str(req[r].code_type.value)

\* C7 as amended: with code_type omitted or the empty string the "Code type:"
\* line reads "unspecified"; with a non-empty code_type it reads code_type.
C7_CodeTypeOrUnspecified ==
    \A r \in Reqs :
        Assembled(r) =>
            CodeTypeLine(user_prompt[r]) =
                IF req[r].code_type.tag = "None" THEN <<"unspecified">>
                ELSE IF req[r].code_type.value = "" THEN <<"unspecified">>
                ELSE <<req[r].code_type.value>>

C7_Witness ==
    \E r, q \in Reqs :
        /\ Assembled(r) /\ req[r].code_type = [tag |-> "str", value |-> ""]
        /\ CodeTypeLine(user_prompt[r]) = <<"unspecified">>
        /\ Assembled(q) /\ req[q].code_type = [tag |-> "str", value |-> "python"]
        /\ CodeTypeLine(user_prompt[q]) = <<"python">>

\* The query gave no documents: key missing, None, [] or [[]].
NoDocuments(res) ==
    \/ res.documents.tag \in {"missing", "None"}
    \/ res.documents.tag = "list" /\ res.documents.value \in {<<>>, << <<>> >>}

\* The snippets part of a user prompt, between its label and the trailer.
SnippetsPart(tokens) ==
    SubSeq(tokens, IndexOf(tokens, SnippetsLabel) + 1, IndexOf(tokens, PromptTrailer) - 1)

\* C8: when the query returns no documents the request goes on with an empty
\* context: contexts is [], contexts_text is the empty string, the Model
\* Runtime is called, and a response has used_context = [].
C8_NoDocumentsIsEmptyContext ==
    \A r \in Reqs :
        (query_outcome[r] = "returned" /\ NoDocuments(results[r])) =>
            /\ contexts[r] = <<>>
            /\ pc[r] # "assemble" => (contexts_text[r] = <<>> /\ SnippetsPart(user_prompt[r]) = <<>>)
            /\ Finished(r) => Len(posts[r]) = 1
            /\ Responded(r) => response[r].used_context = <<>>

C8_Witness ==
    \E r, q \in Reqs :
        /\ Responded(r) /\ results[r].documents.tag = "missing"
        /\ response[r].used_context = <<>> /\ Len(posts[r]) = 1
        /\ Responded(q) /\ results[q].documents = [tag |-> "list", value |-> << <<>> >>]
        /\ response[q].used_context = <<>> /\ Len(posts[q]) = 1

\* What a request hands to the Model Runtime and returns as used_context.
Composed(r) == <<system_message[r], user_prompt[r], posts[r], contexts[r]>>

\* C9 (state part): two requests with the same fields and the same query
\* result have the same system message, user message, posted messages and
\* used_context.
C9_SameInputsSameMessages ==
    \A r, q \in Reqs :
        (Assembled(r) /\ Assembled(q) /\ req[r] = req[q] /\ returned[r] = returned[q]
         /\ Len(posts[r]) = Len(posts[q]))
            => Composed(r) = Composed(q)

\* C9 (step part): a step that is not a step of request r leaves what r
\* composed, and r's response, as they were.
C9_OthersLeaveRequestAlone ==
    \A r \in Reqs : (pc'[r] = pc[r]) => (Composed(r)' = Composed(r) /\ response'[r] = response[r])

\* C9: under any interleaving of concurrent requests the composed messages and
\* used_context of a request depend only on its own fields and its own query
\* result, and no other request changes them.
C9_RequestsIsolated == [](C9_SameInputsSameMessages) /\ [][C9_OthersLeaveRequestAlone]_vars

C9_Witness ==
    \E r, q \in Reqs :
        /\ r # q /\ pc[r] = "done" /\ pc[q] = "call"
        /\ req[r] = req[q] /\ returned[r] = returned[q] /\ Len(returned[r]) = 3
        /\ user_prompt[r] = user_prompt[q]

\* C10: the collection is written only by the seeding at start, before any
\* request is received; once the process serves, no step changes it.
C10_StoreWrittenOnlyAtStartup ==
    [][/\ proc = "serving" => store' = store
       /\ store' # store => (proc = "importing" /\ \A r \in Reqs : pc[r] = "idle" /\ status[r] = 0)]_vars

C10_Witness ==
    \E r, q \in Reqs :
        /\ proc = "serving" /\ store0 = <<>> /\ Len(store) = 3
        /\ pc[r] = "done" /\ pc[q] = "failed"

====
